---- MODULE Spec2Model ----
(***************************************************************************)
(* Text normalizer (src/text_processor.py) and entity-span resolver        *)
(* (src/entity_processor.py).                                               *)
(*                                                                         *)
(* A Python str is modelled as a sequence of Unicode code points           *)
(* (naturals); Python's 0-based half-open indices are kept as they are,    *)
(* so text[a:b] is Slice(text, a, b) == SubSeq(text, a + 1, b).            *)
(***************************************************************************)
EXTENDS Integers, Sequences, FiniteSets, TLC

VARIABLES
    pc,                     \* which call has completed
    text,                   \* argument of process / expand_substring
    normalized,             \* process(text)
    renormalized,           \* process(process(text))
    substring,              \* argument of expand_substring
    custom_chars,           \* argument custom_chars
    forbidden_start_chars,  \* argument forbidden_start_chars
    forbidden_end_chars,    \* argument forbidden_end_chars
    expanded,               \* expand_substring(...)
    query,                  \* argument of process_query
    processed_query,        \* preprocess_query(query)
    recognized,             \* what recognize_entities returned
    entities,               \* the candidate list process_query iterates over
    expansions,             \* expand_entity_without_overlap result per candidate
    corrector_calls,        \* the calls of correct_entity, in order
    scanner_calls,          \* the calls of detect_continuous_custom_chars
    final_entities,         \* the list process_query returns
    detected                \* what detect_continuous_custom_chars returned

vars == <<pc, text, normalized, renormalized, substring, custom_chars,
          forbidden_start_chars, forbidden_end_chars, expanded, query,
          processed_query, recognized, entities, expansions,
          corrector_calls, scanner_calls, final_entities, detected>>

normVars == <<text, normalized, renormalized>>
expandVars == <<substring, expanded>>
charVars == <<custom_chars, forbidden_start_chars, forbidden_end_chars>>
resolveVars == <<query, processed_query, recognized, entities, expansions,
                 corrector_calls, scanner_calls, final_entities>>

----------------------------------------------------------------------------
(* Bounds of the model. *)

MaxNormLen == 4
MaxTextLen == 4
MaxQueryLen == 4
MaxCands == 2
MaxRecLen == 3
MaxScanLen == 4

----------------------------------------------------------------------------
(* Python str primitives. *)

\* text[a:b] for 0 <= a and b <= len(text); empty when a >= b
Slice(s, a, b) == SubSeq(s, a + 1, b)

\* c in s, for a one-character c
InStr(c, s) == \E i \in 1..Len(s) : s[i] = c

\* s.startswith(sub, k)
OccursAt(s, sub, k) ==
    /\ k + Len(sub) <= Len(s)
    /\ \A i \in 1..Len(sub) : s[k + i] = sub[i]

\* s.find(sub): the lowest index of an occurrence, -1 when there is none
Find(s, sub) ==
    IF \E k \in 0..Len(s) : OccursAt(s, sub, k)
    THEN CHOOSE k \in 0..Len(s) :
            /\ OccursAt(s, sub, k)
            /\ \A j \in 0..(k - 1) : ~OccursAt(s, sub, j)
    ELSE -1

\* all sequences over S of length at most n
RECURSIVE SeqsUpTo(_, _)
SeqsUpTo(S, n) ==
    IF n = 0 THEN {<<>>}
    ELSE LET shorter == SeqsUpTo(S, n - 1)
         IN  shorter \cup {Append(s, c) : s \in {t \in shorter : Len(t) = n - 1}, c \in S}

\* s with every character of the set D deleted (str.replace(ch, ''))
Delete(s, D) == SelectSeq(s, LAMBDA c : c \notin D)

----------------------------------------------------------------------------
(* Text normalizer: src/text_processor.py.                                  *)
(* The Unicode tables are given for the code points of NormAlphabet and    *)
(* the code points they map to.                                             *)

\* NFKC compatibility decomposition of one code point
NFKCDecompose(c) ==
    CASE c \in 65281..65374 -> <<c - 65248>>            \* fullwidth ASCII forms
      [] c \in {160, 8199, 8239, 8287, 12288} -> <<32>>   \* <noBreak>/<wide> space
      [] c \in 8192..8202 -> <<32>>                       \* en quad .. hair space
      [] c = 496 -> <<106, 780>>                          \* j with caron
      [] OTHER -> <<c>>

\* the decomposition of every code point of a string, concatenated
RECURSIVE NFKCDecomposeAll(_)
NFKCDecomposeAll(s) ==
    IF s = <<>> THEN <<>>
    ELSE NFKCDecompose(Head(s)) \o NFKCDecomposeAll(Tail(s))

\* NFKC canonical composition: j followed by a combining caron composes
RECURSIVE NFKCCompose(_)
NFKCCompose(s) ==
    IF Len(s) < 2 THEN s
    ELSE IF s[1] = 106 /\ s[2] = 780
         THEN <<496>> \o NFKCCompose(SubSeq(s, 3, Len(s)))
         ELSE <<s[1]>> \o NFKCCompose(Tail(s))

\* unicodedata.normalize('NFKC', text)
fullwidth_to_halfwidth(t) == NFKCCompose(NFKCDecomposeAll(t))

NonBreakingSpaces == {160, 8199, 8239}

\* text.replace(U+00A0, '').replace(U+2007, '').replace(U+202F, '')
remove_non_breaking_spaces(t) == Delete(t, NonBreakingSpaces)

\* str.lower() of one code point
LowerChar(c) ==
    CASE c \in 65..90 -> c + 32
      [] c \in 65313..65338 -> c + 32
      [] OTHER -> c

to_lower(t) == [i \in 1..Len(t) |-> LowerChar(t[i])]

InvisibleChars == {8203, 8204, 8205, 65279} \cup (8234..8238)
AsciiControlChars == (0..31) \cup {127}

remove_invisible_chars(t) == Delete(Delete(t, InvisibleChars), AsciiControlChars)

SpaceVariants == {12288, 160, 8239, 8287, 8288} \cup (8192..8202)

normalize_spaces(t) ==
    [i \in 1..Len(t) |-> IF t[i] \in SpaceVariants THEN 32 ELSE t[i]]

\* the collapsing step left out
collapse_spaces_skipped(t) == t

\* re.sub(r' +', ' ', text)
RECURSIVE collapse_spaces(_)
collapse_spaces(t) ==
    IF Len(t) < 2 THEN t
    ELSE IF t[1] = 32 /\ t[2] = 32
         THEN collapse_spaces(Tail(t))
         ELSE <<t[1]>> \o collapse_spaces(Tail(t))

\* str.isspace() of one code point
IsWhitespace(c) ==
    c \in {9, 10, 11, 12, 13, 28, 29, 30, 31, 32, 133, 160, 5760,
           8232, 8233, 8239, 8287, 12288} \cup (8192..8202)

RECURSIVE LStrip(_)
LStrip(t) ==
    IF t # <<>> /\ IsWhitespace(Head(t)) THEN LStrip(Tail(t)) ELSE t

RECURSIVE RStrip(_)
RStrip(t) ==
    IF t # <<>> /\ IsWhitespace(t[Len(t)])
    THEN RStrip(SubSeq(t, 1, Len(t) - 1))
    ELSE t

\* text.strip()
strip(t) == RStrip(LStrip(t))

\* TextProcessor.process
process(t) ==
    strip(collapse_spaces(normalize_spaces(remove_invisible_chars(
        to_lower(remove_non_breaking_spaces(fullwidth_to_halfwidth(t)))))))

\* J, j, combining caron, j-with-caron, fullwidth J, space, NBSP, narrow NBSP,
\* zero-width space, word joiner, TAB, NEL
NormAlphabet == {74, 106, 780, 496, 65322, 32, 160, 8239, 8203, 8288, 9, 133}

NormStrings == SeqsUpTo(NormAlphabet, MaxNormLen)

InitNormalize ==
    /\ pc = "input"
    /\ text \in NormStrings
    /\ normalized = <<>> /\ renormalized = <<>>
    /\ substring = <<>> /\ expanded = <<>>
    /\ custom_chars = <<>> /\ forbidden_start_chars = <<>>
    /\ forbidden_end_chars = <<>>
    /\ query = <<>> /\ processed_query = <<>> /\ recognized = <<>>
    /\ entities = <<>> /\ expansions = <<>> /\ corrector_calls = <<>>
    /\ scanner_calls = <<>> /\ final_entities = <<>>
    /\ detected = <<>>

\* normalized = process(text)
Process ==
    /\ pc = "input"
    /\ normalized' = process(text)
    /\ pc' = "normalized"
    /\ UNCHANGED <<text, renormalized, expandVars, charVars, resolveVars, detected>>

\* renormalized = process(normalized): the normalizer applied to its own output
ProcessAgain ==
    /\ pc = "normalized"
    /\ renormalized' = process(normalized)
    /\ pc' = "renormalized"
    /\ UNCHANGED <<text, normalized, expandVars, charVars, resolveVars, detected>>

NextNormalize == Process \/ ProcessAgain

SpecNormalize == InitNormalize /\ [][NextNormalize]_vars

----------------------------------------------------------------------------
(* Claims about the normalizer, under SpecNormalize. *)

\* C2: process is idempotent: process(process(s)) = process(s) for every
\* string s.
C2_Idempotent ==
    pc = "renormalized" => renormalized = normalized

NoDoubleSpace(t) == \A i \in 1..(Len(t) - 1) : ~(t[i] = 32 /\ t[i + 1] = 32)

NoEdgeSpace(t) == t # <<>> => (t[1] # 32 /\ t[Len(t)] # 32)

\* C3: the result of process never holds two consecutive ASCII spaces and
\* neither starts nor ends with a space, also when the spaces only meet, or
\* only reach an end, after invisible characters were deleted or space
\* variants were mapped to a space.
C3_SpacesCollapsed ==
    pc \in {"normalized", "renormalized"} =>
        NoDoubleSpace(normalized) /\ NoEdgeSpace(normalized)

\* C3 witness: a space and a word joiner or zero-width space between two
\* letters: the two spaces meet only after steps 4 and 5, and are collapsed.
C3_Witness ==
    /\ pc = "normalized"
    /\ Len(text) = 4
    /\ text[1] = 106 /\ text[2] = 32 /\ text[3] \in {8288, 8203} /\ text[4] = 106
    /\ normalized \in {<<106, 32, 106>>}

\* C4: U+00A0, U+2007 and U+202F are removed, not turned into a space:
\* process(s) equals process of s with every such code point deleted.
C4_NonBreakingRemoved ==
    pc \in {"normalized", "renormalized"} =>
        normalized = process(Delete(text, NonBreakingSpaces))

----------------------------------------------------------------------------
(* Character-class scanner and substring expander: src/text_processor.py.  *)

\* re.match(r'[a-zA-Z0-9' + re.escape(custom_chars) + r']', c)
IsClassChar(c, custom) ==
    \/ c \in 48..57
    \/ c \in 65..90
    \/ c \in 97..122
    \/ InStr(c, custom)

\* the end of the greedy match of base_chars+ tried at position i
RECURSIVE RunEnd(_, _, _)
RunEnd(t, i, custom) ==
    IF i < Len(t) /\ IsClassChar(t[i + 1], custom)
    THEN RunEnd(t, i + 1, custom)
    ELSE i

\* where '$' matches: at the end, or just before a final newline
AtEnd(t, j) == j = Len(t) \/ (j = Len(t) - 1 /\ t[Len(t)] = 10)

\* re.findall(pattern, text) scanning from position i; anchoredEnd is the '$'
RECURSIVE FindAllFrom(_, _, _, _)
FindAllFrom(t, i, custom, anchoredEnd) ==
    IF i >= Len(t) THEN <<>>
    ELSE LET j == RunEnd(t, i, custom)
         IN  IF j > i /\ (anchoredEnd => AtEnd(t, j))
             THEN <<Slice(t, i, j)>> \o FindAllFrom(t, j, custom, anchoredEnd)
             ELSE FindAllFrom(t, i + 1, custom, anchoredEnd)

\* TextProcessor.detect_continuous_custom_chars
detect_continuous_custom_chars(t, custom, start_constraint, end_constraint) ==
    IF start_constraint
    THEN LET j == RunEnd(t, 0, custom)
         IN  IF j > 0 /\ (end_constraint => AtEnd(t, j))
             THEN <<Slice(t, 0, j)>>
             ELSE <<>>
    ELSE FindAllFrom(t, 0, custom, end_constraint)

\* start_pos = text.rfind(substring): the last occurrence instead of the first
start_pos_last(t, sub) ==
    CHOOSE k \in 0..Len(t) :
        /\ OccursAt(t, sub, k)
        /\ \A j \in (k + 1)..Len(t) : ~OccursAt(t, sub, j)

\* start_pos = text.find(substring)
start_pos(t, sub) == Find(t, sub)

\* the leftward loop of expand_substring, from expanded_start = pos
RECURSIVE ExpandLeft(_, _, _, _)
ExpandLeft(t, pos, custom, forbidden_start) ==
    IF /\ pos > 0
       /\ IsClassChar(t[pos], custom)
       /\ ~InStr(t[pos], forbidden_start)
    THEN ExpandLeft(t, pos - 1, custom, forbidden_start)
    ELSE pos

\* the rightward loop of expand_substring, from expanded_end = pos
RECURSIVE ExpandRight(_, _, _, _)
ExpandRight(t, pos, custom, forbidden_end) ==
    IF /\ pos < Len(t)
       /\ IsClassChar(t[pos + 1], custom)
       /\ ~InStr(t[pos + 1], forbidden_end)
    THEN ExpandRight(t, pos + 1, custom, forbidden_end)
    ELSE pos

\* TextProcessor.expand_substring
expand_substring(t, sub, custom, forbidden_start, forbidden_end) ==
    IF Find(t, sub) = -1 THEN sub
    ELSE LET sp == start_pos(t, sub)
             ep == sp + Len(sub)
         IN  Slice(t, ExpandLeft(t, sp, custom, forbidden_start),
                      ExpandRight(t, ep, custom, forbidden_end))

\* a, b, underscore, space
TextAlphabet == {97, 98, 95, 32}

Texts == SeqsUpTo(TextAlphabet, MaxTextLen)

\* every t[a:b], and "!" which occurs in no text
SubstringsOf(t) ==
    {Slice(t, a, b) : a \in 0..Len(t), b \in 0..Len(t)} \cup {<<33>>}

CustomCharSets == {<<>>, <<95>>}

ForbiddenCharSets == {<<>>, <<95>>, <<98>>}

InitExpand ==
    /\ pc = "args"
    /\ text \in Texts
    /\ substring \in SubstringsOf(text)
    /\ custom_chars \in CustomCharSets
    /\ forbidden_start_chars \in ForbiddenCharSets
    /\ forbidden_end_chars \in ForbiddenCharSets
    /\ expanded = <<>>
    /\ normalized = <<>> /\ renormalized = <<>>
    /\ query = <<>> /\ processed_query = <<>> /\ recognized = <<>>
    /\ entities = <<>> /\ expansions = <<>> /\ corrector_calls = <<>>
    /\ scanner_calls = <<>> /\ final_entities = <<>>
    /\ detected = <<>>

\* expanded = expand_substring(text, substring, ...)
ExpandSubstring ==
    /\ pc = "args"
    /\ expanded' = expand_substring(text, substring, custom_chars,
                                    forbidden_start_chars, forbidden_end_chars)
    /\ pc' = "expanded"
    /\ UNCHANGED <<normVars, substring, charVars, resolveVars, detected>>

NextExpand == ExpandSubstring

SpecExpand == InitExpand /\ [][NextExpand]_vars

----------------------------------------------------------------------------
(* Claims about expand_substring, under SpecExpand. *)

\* C5: when substring occurs in text, the result is text[a:b] with
\* 0 <= a <= p and p + len(substring) <= b <= len(text), p being the first
\* occurrence of substring: the expanded interval contains the original one
\* and stays inside the buffer.
C5_ExpansionMonotone ==
    (pc = "expanded" /\ Find(text, substring) # -1) =>
        LET p == Find(text, substring)
        IN  \E a \in 0..p : \E b \in (p + Len(substring))..Len(text) :
                expanded = Slice(text, a, b)

\* C5 witness: an expansion that grew on both sides of the occurrence.
C5_Witness ==
    /\ pc = "expanded"
    /\ Find(text, substring) > 0
    /\ Len(expanded) >= Len(substring) + 2
    /\ expanded = Slice(text, Find(text, substring) - 1,
                        Find(text, substring) + Len(substring) + 1)

\* C6: whenever the result differs from substring, its first character is
\* not in forbidden_start_chars and its last is not in forbidden_end_chars,
\* also when only one side expanded and the substring's own other boundary
\* character is forbidden.
C6_ForbiddenBoundary ==
    (/\ pc = "expanded"
     /\ substring # <<>>
     /\ Find(text, substring) # -1
     /\ expanded # substring) =>
        /\ ~InStr(expanded[1], forbidden_start_chars)
        /\ ~InStr(expanded[Len(expanded)], forbidden_end_chars)

----------------------------------------------------------------------------
(* Span resolver: src/entity_processor.py.                                  *)
(* An entity is a record [text, start_index, end_index, type].  The         *)
(* recognizer and the corrector are the overridable collaborators           *)
(* recognize_entities and correct_entity: what they return is chosen by     *)
(* the environment, the shipped stubs ([] and None) included.               *)

\* Python's None, as a value comparable with an entity record
None == [type |-> "None"]

Entity(t, a, b, kind) ==
    [text |-> t, start_index |-> a, end_index |-> b, type |-> kind]

\* EntityProcessor.preprocess_query
preprocess_query(q) == process(q)

\* end_index = len(entity_text): the start offset forgotten
detected_entity_unshifted(q, entity_text) ==
    Entity(entity_text, Find(q, entity_text), Len(entity_text), "DETECTED")

\* the dict detect_potential_entities builds for one detected text
detected_entity(q, entity_text) ==
    LET start_index == Find(q, entity_text)
    IN  Entity(entity_text, start_index, start_index + Len(entity_text),
               "DETECTED")

\* EntityProcessor.detect_potential_entities
detect_potential_entities(q, custom, start_constraint, end_constraint) ==
    LET potential == detect_continuous_custom_chars(q, custom,
                         start_constraint, end_constraint)
    IN  [k \in 1..Len(potential) |-> detected_entity(q, potential[k])]

\* (expanded_start < end and expanded_end > start)
Overlaps(expanded_start, expanded_end, other) ==
    expanded_start < other.end_index /\ expanded_end > other.start_index

\* EntityProcessor.expand_entity_without_overlap; other_boundaries holds the
\* boundaries of the elements that differ from entity by value (dict !=)
expand_entity_without_overlap(q, entity, all_entities, custom, fstart, fend) ==
    LET other_boundaries ==
            SelectSeq(all_entities, LAMBDA other : other # entity)
        expanded_text ==
            expand_substring(q, entity.text, custom, fstart, fend)
        expanded_start == Find(q, expanded_text)
        expanded_end == expanded_start + Len(expanded_text)
    IN  IF \E k \in 1..Len(other_boundaries) :
               Overlaps(expanded_start, expanded_end, other_boundaries[k])
        THEN entity.text
        ELSE expanded_text

\* a tie placed before the elements with an equal key: an unstable sort
RECURSIVE sort_by_start_unstable(_)
sort_by_start_unstable(es) ==
    IF es = <<>> THEN <<>>
    ELSE LET last == es[Len(es)]
             rest == sort_by_start_unstable(SubSeq(es, 1, Len(es) - 1))
         IN  SelectSeq(rest, LAMBDA e : e.start_index < last.start_index)
             \o <<last>>
             \o SelectSeq(rest, LAMBDA e : e.start_index >= last.start_index)

\* entities.sort(key=lambda x: x['start_index']): list.sort is stable
RECURSIVE sort_by_start(_)
sort_by_start(es) ==
    IF es = <<>> THEN <<>>
    ELSE LET last == es[Len(es)]
             rest == sort_by_start(SubSeq(es, 1, Len(es) - 1))
         IN  SelectSeq(rest, LAMBDA e : e.start_index <= last.start_index)
             \o <<last>>
             \o SelectSeq(rest, LAMBDA e : e.start_index > last.start_index)

\* correct_entity called with the original and the expanded text swapped
corrector_args_swapped(entity, expanded_text) ==
    [original_entity |-> expanded_text, expanded_entity |-> entity.text,
     start_index |-> entity.start_index, end_index |-> entity.end_index]

\* the arguments of self.correct_entity(entity['text'], expanded_text,
\* entity['start_index'], entity['end_index'])
corrector_args(entity, expanded_text) ==
    [original_entity |-> entity.text, expanded_entity |-> expanded_text,
     start_index |-> entity.start_index, end_index |-> entity.end_index]

\* what correct_entity returns for a call: None (as the shipped stub does) or,
\* when answers is TRUE, a corrected entity of the documented format
correct_entity(args, answers) ==
    IF answers
    THEN Entity(args.expanded_entity, args.start_index, args.end_index,
                "CORRECTED")
    ELSE None

\* the expansion of every candidate, in list order
ExpansionsOf(q, es, custom, forbidden_start, forbidden_end) ==
    [k \in 1..Len(es) |->
        expand_entity_without_overlap(q, es[k], es, custom, forbidden_start,
                                      forbidden_end)]

\* one iteration of the loop of process_query: the element appended to
\* final_entities for candidate k; the corrector answers the calls made for
\* the candidates in corr and returns None for the others
FinalEntity(es, exps, corr, k) ==
    IF exps[k] = es[k].text
    THEN es[k]
    ELSE LET corrected_entity ==
                 correct_entity(corrector_args(es[k], exps[k]), k \in corr)
         IN  IF corrected_entity # None THEN corrected_entity ELSE es[k]

\* the calls of correct_entity the loop makes for candidates k..n, in order,
\* each with what it returned
RECURSIVE CorrectorCalls(_, _, _, _)
CorrectorCalls(es, exps, corr, k) ==
    IF k > Len(es) THEN <<>>
    ELSE IF exps[k] = es[k].text
         THEN CorrectorCalls(es, exps, corr, k + 1)
         ELSE <<[args |-> corrector_args(es[k], exps[k]),
                 returned |-> correct_entity(corrector_args(es[k], exps[k]),
                                             k \in corr)]>>
              \o CorrectorCalls(es, exps, corr, k + 1)

\* the candidates for which the loop reaches the call of correct_entity
CorrectedPositions(es, exps) == {k \in 1..Len(es) : exps[k] # es[k].text}

\* A, underscore, space
QueryAlphabet == {65, 95, 32}

Queries == SeqsUpTo(QueryAlphabet, MaxQueryLen)

\* what recognize_entities may return for a buffer: at most MaxCands spans
\* of the buffer, in any order, repeated or overlapping ones included
RecognizerSpans(t) ==
    {Entity(Slice(t, ab[1], ab[2]), ab[1], ab[2], "RECOGNIZED") :
        ab \in {x \in (0..Len(t)) \X (0..Len(t)) : x[1] < x[2]}}

RecognizerLists(t) == SeqsUpTo(RecognizerSpans(t), MaxCands)

Init ==
    /\ pc = "call"
    /\ query \in Queries
    /\ custom_chars \in CustomCharSets
    /\ forbidden_start_chars \in CustomCharSets
    /\ forbidden_end_chars \in CustomCharSets
    /\ processed_query = <<>> /\ recognized = <<>>
    /\ entities = <<>> /\ expansions = <<>> /\ corrector_calls = <<>>
    /\ scanner_calls = <<>> /\ final_entities = <<>>
    /\ detected = <<>>
    /\ text = <<>> /\ normalized = <<>> /\ renormalized = <<>>
    /\ substring = <<>> /\ expanded = <<>>

\* process_query when recognize_entities raises: the exception leaves
\* process_query, nothing is returned
ProcessQueryRaises ==
    /\ pc = "call"
    /\ processed_query' = preprocess_query(query)
    /\ pc' = "raised"
    /\ UNCHANGED <<normVars, expandVars, charVars, query, recognized,
                   entities, expansions, corrector_calls, scanner_calls,
                   final_entities, detected>>

\* process_query when recognize_entities returns a non-empty list; the
\* recognizer's answers are enumerated for queries of at most MaxRecLen
\* characters
ProcessQueryRecognized ==
    /\ pc = "call"
    /\ Len(query) <= MaxRecLen
    /\ LET pq == preprocess_query(query)
       IN  \E rec \in RecognizerLists(pq) \ {<<>>} :
              LET es == sort_by_start(rec)
                  exps == ExpansionsOf(pq, es, custom_chars,
                              forbidden_start_chars, forbidden_end_chars)
              IN  \E corr \in SUBSET CorrectedPositions(es, exps) :
                  /\ processed_query' = pq
                  /\ recognized' = rec
                  /\ entities' = es
                  /\ expansions' = exps
                  /\ corrector_calls' = CorrectorCalls(es, exps, corr, 1)
                  /\ final_entities' =
                        [k \in 1..Len(es) |-> FinalEntity(es, exps, corr, k)]
    /\ pc' = "returned"
    /\ UNCHANGED <<normVars, expandVars, charVars, query, scanner_calls, detected>>

\* process_query when recognize_entities returns []: the fallback scanner
ProcessQueryFallback ==
    /\ pc = "call"
    /\ LET pq == preprocess_query(query)
       IN  \E start_constraint \in BOOLEAN, end_constraint \in BOOLEAN :
              LET es == detect_potential_entities(pq, custom_chars,
                            start_constraint, end_constraint)
                  exps == ExpansionsOf(pq, es, custom_chars,
                              forbidden_start_chars, forbidden_end_chars)
              IN  \E corr \in SUBSET CorrectedPositions(es, exps) :
                  /\ processed_query' = pq
                  /\ recognized' = <<>>
                  /\ scanner_calls' =
                        <<[text |-> pq, custom_chars |-> custom_chars,
                           start_constraint |-> start_constraint,
                           end_constraint |-> end_constraint]>>
                  /\ entities' = es
                  /\ expansions' = exps
                  /\ corrector_calls' = CorrectorCalls(es, exps, corr, 1)
                  /\ final_entities' =
                        [k \in 1..Len(es) |-> FinalEntity(es, exps, corr, k)]
    /\ pc' = "returned"
    /\ UNCHANGED <<normVars, expandVars, charVars, query, detected>>

Next == ProcessQueryRaises \/ ProcessQueryRecognized \/ ProcessQueryFallback

Spec == Init /\ [][Next]_vars

----------------------------------------------------------------------------
(* Claims about process_query, under Spec. *)

Fallback == pc = "returned" /\ scanner_calls # <<>>

\* the half-open intervals of two spans intersect
Intersect(e1, e2) ==
    e1.start_index < e2.end_index /\ e2.start_index < e1.end_index

\* C1: no two distinct spans of the list process_query returns have
\* intersecting intervals [start_index, end_index).  Stated for the lists
\* built by the fallback scanner, where every candidate is made by
\* detect_potential_entities.
C1_OverlapSafety ==
    Fallback =>
        \A i \in 1..Len(final_entities) : \A j \in 1..Len(final_entities) :
            (i # j /\ final_entities[i] # final_entities[j]) =>
                ~Intersect(final_entities[i], final_entities[j])

\* 0 <= start_index < end_index <= len(buffer), text == buffer[start:end]
ValidSpan(e, buffer) ==
    /\ 0 <= e.start_index
    /\ e.start_index < e.end_index
    /\ e.end_index <= Len(buffer)
    /\ e.text = Slice(buffer, e.start_index, e.end_index)

\* C7: on the fallback path every span detect_potential_entities builds, and
\* every span process_query returns that the corrector did not replace, is a
\* valid span of the normalized buffer.
C7_FallbackSpanInvariant ==
    Fallback =>
        /\ \A k \in 1..Len(entities) : ValidSpan(entities[k], processed_query)
        /\ \A k \in 1..Len(final_entities) :
              final_entities[k].type = "DETECTED" =>
                  ValidSpan(final_entities[k], processed_query)

\* C7 witness: the scanner found the same run text twice, and both spans
\* were returned.
C7_Witness ==
    /\ Fallback
    /\ Len(entities) = 2
    /\ entities[1].text = entities[2].text
    /\ final_entities = entities

\* C8: expand_entity_without_overlap returns the candidate's own text when
\* the interval of the expanded text intersects the interval of any other
\* element of the list, every element at another position counting as
\* another one even when its fields are equal, and the expanded text
\* otherwise.
C8_OverlapVeto ==
    pc = "returned" =>
        \A k \in 1..Len(entities) :
            LET expanded_text ==
                    expand_substring(processed_query, entities[k].text,
                        custom_chars, forbidden_start_chars,
                        forbidden_end_chars)
                expanded_start == Find(processed_query, expanded_text)
                expanded_end == expanded_start + Len(expanded_text)
            IN  expansions[k] =
                    IF \E j \in 1..Len(entities) :
                           /\ j # k
                           /\ expanded_start < entities[j].end_index
                           /\ expanded_end > entities[j].start_index
                    THEN entities[k].text
                    ELSE expanded_text

\* the positions whose expansion result differs from the candidate's text,
\* in increasing order
RECURSIVE ChangedFrom(_)
ChangedFrom(k) ==
    IF k > Len(entities) THEN <<>>
    ELSE (IF expansions[k] # entities[k].text THEN <<k>> ELSE <<>>)
         \o ChangedFrom(k + 1)

\* C9: the final list is as long as the candidate list; the corrector is
\* called exactly for the candidates whose expansion result differs from
\* their text, in list order, with the candidate's text, the expansion
\* result and the candidate's start_index and end_index; final[i] is the
\* span the corrector returned when it was called and returned one, and the
\* unchanged candidate otherwise.
C9_PerCandidateDecision ==
    pc = "returned" =>
        LET changed == ChangedFrom(1)
        IN  /\ Len(final_entities) = Len(entities)
            /\ Len(expansions) = Len(entities)
            /\ Len(corrector_calls) = Len(changed)
            /\ \A k \in 1..Len(entities) :
                  expansions[k] = entities[k].text =>
                      final_entities[k] = entities[k]
            /\ \A c \in 1..Len(changed) :
                  LET k == changed[c]
                      call == corrector_calls[c]
                  IN  /\ call.args.original_entity = entities[k].text
                      /\ call.args.expanded_entity = expansions[k]
                      /\ call.args.start_index = entities[k].start_index
                      /\ call.args.end_index = entities[k].end_index
                      /\ final_entities[k] =
                            IF call.returned = None THEN entities[k]
                            ELSE call.returned

\* C9 witness: two different candidates; the expansion of the first changed
\* its text and the corrector's span replaced it, the second was kept as
\* it was without a call.
C9_Witness ==
    /\ pc = "returned"
    /\ Len(entities) = 2
    /\ entities[1] # entities[2]
    /\ expansions[1] # entities[1].text
    /\ expansions[2] = entities[2].text
    /\ Len(corrector_calls) = 1
    /\ corrector_calls[1].returned # None
    /\ final_entities[1] = corrector_calls[1].returned
    /\ final_entities[2] = entities[2]

\* the bijections of 1..n
Perms(n) ==
    {f \in [1..n -> 1..n] : \A i \in 1..n : \A j \in 1..n : f[i] = f[j] => i = j}

\* es is rec sorted ascending by start_index, equal keys in rec's order
StablySorted(rec, es) ==
    /\ Len(es) = Len(rec)
    /\ \E f \in Perms(Len(rec)) :
          /\ \A i \in 1..Len(rec) : es[i] = rec[f[i]]
          /\ \A i \in 1..Len(rec) : \A j \in 1..Len(rec) :
                i < j =>
                    /\ es[i].start_index <= es[j].start_index
                    /\ es[i].start_index = es[j].start_index => f[i] < f[j]

\* C10: a non-empty recognizer result is processed stably sorted by
\* start_index and the fallback scanner is not called; the scanner is
\* called, on the normalized text, exactly when the recognizer returned an
\* empty list; when the recognizer raises, nothing is scanned and nothing
\* is returned.
C10_CandidateAcquisition ==
    /\ pc = "returned" =>
          /\ processed_query = process(query)
          /\ recognized # <<>> =>
                (StablySorted(recognized, entities) /\ scanner_calls = <<>>)
          /\ recognized = <<>> =>
                /\ Len(scanner_calls) = 1
                /\ scanner_calls[1].text = processed_query
                /\ scanner_calls[1].custom_chars = custom_chars
    /\ pc = "raised" =>
          /\ scanner_calls = <<>>
          /\ entities = <<>>
          /\ corrector_calls = <<>>
          /\ final_entities = <<>>

\* C10 witness: the recognizer returned two spans with the same start_index
\* in an order the sort keeps, and no scan was made.
C10_Witness ==
    /\ pc = "returned"
    /\ Len(recognized) = 2
    /\ recognized[1].start_index = recognized[2].start_index
    /\ recognized[1].end_index > recognized[2].end_index
    /\ entities = recognized
    /\ scanner_calls = <<>>

----------------------------------------------------------------------------
(* detect_continuous_custom_chars called on its own: any text, a final     *)
(* newline included.                                                        *)

\* a, underscore, "!", newline
ScanAlphabet == {97, 95, 33, 10}

ScanTexts == SeqsUpTo(ScanAlphabet, MaxScanLen)

InitScan ==
    /\ pc = "args"
    /\ text \in ScanTexts
    /\ custom_chars \in CustomCharSets
    /\ scanner_calls = <<>> /\ detected = <<>>
    /\ normalized = <<>> /\ renormalized = <<>>
    /\ substring = <<>> /\ expanded = <<>>
    /\ forbidden_start_chars = <<>> /\ forbidden_end_chars = <<>>
    /\ query = <<>> /\ processed_query = <<>> /\ recognized = <<>>
    /\ entities = <<>> /\ expansions = <<>> /\ corrector_calls = <<>>
    /\ final_entities = <<>>

\* detected = detect_continuous_custom_chars(text, custom_chars, sc, ec)
DetectContinuousCustomChars ==
    /\ pc = "args"
    /\ \E start_constraint \in BOOLEAN, end_constraint \in BOOLEAN :
          /\ scanner_calls' =
                <<[text |-> text, custom_chars |-> custom_chars,
                   start_constraint |-> start_constraint,
                   end_constraint |-> end_constraint]>>
          /\ detected' = detect_continuous_custom_chars(text, custom_chars,
                             start_constraint, end_constraint)
    /\ pc' = "scanned"
    /\ UNCHANGED <<normVars, expandVars, charVars, query, processed_query,
                   recognized, entities, expansions, corrector_calls,
                   final_entities>>

NextScan == DetectContinuousCustomChars

SpecScan == InitScan /\ [][NextScan]_vars

----------------------------------------------------------------------------
(* Claims about the scanner. *)

\* [a, b) is a maximal run of t: non-empty, every character in the class,
\* the characters before and after it, if any, outside the class
IsMaximalRun(t, custom, a, b) ==
    /\ 0 <= a /\ a < b /\ b <= Len(t)
    /\ \A i \in (a + 1)..b : IsClassChar(t[i], custom)
    /\ a > 0 => ~IsClassChar(t[a], custom)
    /\ b < Len(t) => ~IsClassChar(t[b + 1], custom)

\* the start positions of the maximal runs of t
RunStarts(t, custom) ==
    {a \in 0..Len(t) : \E b \in 0..Len(t) : IsMaximalRun(t, custom, a, b)}

\* the maximal runs of t as <<start, end>> pairs, from left to right
RECURSIVE RunsAfter(_, _, _)
RunsAfter(t, custom, from) ==
    LET starts == {a \in RunStarts(t, custom) : a >= from}
    IN  IF starts = {} THEN <<>>
        ELSE LET a == CHOOSE x \in starts : \A y \in starts : x <= y
                 b == CHOOSE y \in 0..Len(t) : IsMaximalRun(t, custom, a, y)
             IN  <<<<a, b>>>> \o RunsAfter(t, custom, b)

MaximalRuns(t, custom) == RunsAfter(t, custom, 0)

\* C11: detect_continuous_custom_chars returns maximal runs of the class in
\* left-to-right order: every maximal run with neither constraint; with
\* start_constraint only, at most one run, starting at position 0; with
\* end_constraint only, at most one run, ending at the end of the buffer;
\* with both, the whole buffer when every character is in the class and
\* nothing otherwise.
C11_ScannerRuns ==
    pc = "scanned" =>
        LET call == scanner_calls[1]
            runs == MaximalRuns(text, custom_chars)
        IN  /\ (~call.start_constraint /\ ~call.end_constraint) =>
                  detected = [k \in 1..Len(runs) |->
                                 Slice(text, runs[k][1], runs[k][2])]
            /\ (call.start_constraint /\ ~call.end_constraint) =>
                  /\ Len(detected) <= 1
                  /\ Len(detected) = 1 =>
                        /\ IsMaximalRun(text, custom_chars, 0, Len(detected[1]))
                        /\ detected[1] = Slice(text, 0, Len(detected[1]))
            /\ (~call.start_constraint /\ call.end_constraint) =>
                  /\ Len(detected) <= 1
                  /\ Len(detected) = 1 =>
                        /\ IsMaximalRun(text, custom_chars,
                               Len(text) - Len(detected[1]), Len(text))
                        /\ detected[1] =
                              Slice(text, Len(text) - Len(detected[1]), Len(text))
            /\ (call.start_constraint /\ call.end_constraint) =>
                  detected =
                      IF /\ text # <<>>
                         /\ \A i \in 1..Len(text) :
                               IsClassChar(text[i], custom_chars)
                      THEN <<text>>
                      ELSE <<>>

\* C12: on the fallback path the k-th span detect_potential_entities builds
\* has the interval of the k-th run the scanner detected (with neither
\* constraint, the k-th maximal run of the buffer), and start_index is
\* strictly increasing along the list.
C12_FallbackRunBoundaries ==
    Fallback =>
        LET runs == MaximalRuns(processed_query, custom_chars)
            call == scanner_calls[1]
        IN  /\ \A k \in 1..(Len(entities) - 1) :
                  entities[k].start_index < entities[k + 1].start_index
            /\ \A k \in 1..Len(entities) :
                  IsMaximalRun(processed_query, custom_chars,
                               entities[k].start_index, entities[k].end_index)
            /\ (~call.start_constraint /\ ~call.end_constraint) =>
                  /\ Len(entities) = Len(runs)
                  /\ \A k \in 1..Len(entities) :
                        /\ entities[k].start_index = runs[k][1]
                        /\ entities[k].end_index = runs[k][2]

====
